---- MODULE Spec2Model ----
(***************************************************************************)
(* HexaScan agent: the polling loop of agent.py (HexaScanAgent), the       *)
(* backoff state and response classification of api_client.py (ApiClient), *)
(* the check registry of checks/registry.py and the path permission rule   *)
(* of config/loader.py.                                                    *)
(*                                                                         *)
(* The server is modelled by its HTTP contract: every request gets either  *)
(* a response with a status code (and, on 429, an optional Retry-After     *)
(* header holding a number of seconds or an HTTP date) or a transport      *)
(* failure.                                                                *)
(***************************************************************************)
EXTENDS Integers, Sequences, FiniteSets, TLC

VARIABLES
    pc,                     \* position of the main thread in start()
    running,                \* HexaScanAgent.running
    closed,                 \* the requests session was closed (ApiClient.close)
    current_poll_interval,  \* HexaScanAgent._current_poll_interval
    current_backoff_index,  \* ApiClient._current_backoff_index
    last_error_type,        \* ApiClient._last_error_type
    checks,                 \* CheckRegistry._checks
    since_heartbeat,        \* current_time - last_heartbeat, capped at heartbeat_interval
    tasks,                  \* the list returned by _poll_tasks()
    idx,                    \* index of the task the for loop of start() is at
    pending,                \* the TaskResult the current _execute_task is about to submit
    in_try,                 \* pending is submitted from inside the try block of _execute_task
    outcome,                \* history: what the check of the current task did
    submitted,              \* history: the TaskResults the current _execute_task handed to submit_result
    created,                \* history: task ids for which CheckRegistry.create was called
    executed,               \* history: task ids whose check's execute() was called
    last_call,              \* history: the most recent ApiClient call
    last_outcome,           \* history: what that call returned or raised
    slept,                  \* history: argument of the most recent time.sleep
    backoff_log,            \* history: values returned by get_backoff_interval
    polls_5xx,              \* history: consecutive get_tasks 5xx failures, no 2xx in between
    signalled_at,           \* history: the task in flight when running became false
    registry_op,            \* history: the most recent CheckRegistry call
    registry_result,        \* history: what that call returned
    last_response,          \* history: the response to the most recent request of a driven client
    poll_body               \* data.tasks of the poll response that a driven get_tasks receives

vars == << pc, running, closed, current_poll_interval, current_backoff_index,
           last_error_type, checks, since_heartbeat, tasks, idx, pending, in_try,
           outcome, submitted, created, executed, last_call, last_outcome, slept,
           backoff_log, polls_5xx, signalled_at, registry_op, registry_result,
           last_response, poll_body >>

None == "None"

(***************************************************************************)
(* Bounds of the model.                                                    *)
(***************************************************************************)
MaxTasks == 2       \* tasks in one poll response
MaxCalls == 5       \* get_backoff_interval calls followed by the backoff driver
MaxPolls5xx == 3    \* cap of the polls_5xx history counter
MaxPathLen == 4     \* characters of a path given to is_path_allowed on its own

(***************************************************************************)
(* Program constants.                                                      *)
(***************************************************************************)
RATE_LIMIT_BACKOFF == << 120, 240, 600 >>
SERVER_ERROR_BACKOFF == << 300, 600, 1200 >>
DEFAULT_RETRY_AFTER == 120
HEARTBEAT_INTERVAL == 60
CONNECTION_RETRY_WAIT == 30
UNEXPECTED_ERROR_WAIT == 60
POLL_INTERVAL == 30     \* config.api.poll_interval of the modelled deployment

Min(a, b) == IF a < b THEN a ELSE b

(***************************************************************************)
(* ApiClient: classification of a request's outcome (api_client.py).       *)
(* A response is [status, retry_after]; status NoResponse stands for a     *)
(* transport failure (requests raised instead of returning a response),    *)
(* retry_after NoHeader for a response without a Retry-After header.       *)
(***************************************************************************)
NoResponse == 0
NoHeader == -1
HttpDate == -2      \* a Retry-After header that holds a date, not a number of seconds
StatusCodes == { 200, 401, 403, 404, 429, 503 }
RetryAfterHeaders == { NoHeader, HttpDate, 30, 300 }
\* the Retry-After header is read on a 429 response only
Responses ==
    { r \in [ status : StatusCodes \cup { NoResponse }, retry_after : RetryAfterHeaders ] :
        r.status # 429 => r.retry_after = NoHeader }

ApiErrorKinds == { "AuthenticationError", "RateLimitError", "ServerError",
                   "ConnectionError", "ApiError" }

\* except ApiError: every class of exceptions.py derives from ApiError
IsApiError(kind) == kind \in ApiErrorKinds

\* _handle_response: the exception class raised for a status code, "ok" for 2xx
HandleResponseKind(status) ==
    IF 200 <= status /\ status < 300 THEN "ok"
    ELSE IF status \in { 401, 403 } THEN "AuthenticationError"
    ELSE IF status = 429 THEN "RateLimitError"
    ELSE IF status >= 500 THEN "ServerError"
    ELSE "ApiError"

\* _handle_response: retry_after carried by RateLimitError
RetryAfter(r) == IF r.retry_after = NoHeader THEN DEFAULT_RETRY_AFTER ELSE r.retry_after

\* line 143: int() raises ValueError on a header that is not a number
IntRaises(r) == r.retry_after = HttpDate

\* _request: what the call returns ("ok") or raises, with the exception's fields
RequestOutcome(r) ==
    IF r.status = NoResponse
    THEN [ kind |-> "ConnectionError", status_code |-> NoResponse, retry_after |-> NoHeader ]
    ELSE IF HandleResponseKind(r.status) = "RateLimitError" /\ IntRaises(r)
    THEN [ kind |-> "ValueError", status_code |-> r.status, retry_after |-> NoHeader ]
    ELSE [ kind |-> HandleResponseKind(r.status),
           status_code |-> r.status,
           retry_after |-> IF HandleResponseKind(r.status) = "RateLimitError"
                           THEN RetryAfter(r) ELSE NoHeader ]

\* every outcome a request can have
RequestOutcomes == { RequestOutcome(r) : r \in Responses }

\* history: no request was made yet
NoRequest == [ made |-> FALSE,
               response |-> [ status |-> NoResponse, retry_after |-> NoHeader ],
               outcome |-> RequestOutcome([ status |-> NoResponse, retry_after |-> NoHeader ]) ]

\* _handle_response calls _reset_backoff on a 2xx response only
ResetsBackoff(kind) == kind = "ok"

\* mutant: a success leaves the index where it was
AfterRequestIndexKept(kind) == current_backoff_index

\* _reset_backoff, applied when the outcome is a success; otherwise no change
AfterRequestIndex(kind) == IF ResetsBackoff(kind) THEN 0 ELSE current_backoff_index
AfterRequestErrorType(kind) == IF ResetsBackoff(kind) THEN None ELSE last_error_type

(***************************************************************************)
(* ApiClient.get_backoff_interval.                                         *)
(***************************************************************************)
\* mutant: a change of error class keeps the index
BackoffStartIndexKept(error_type) == current_backoff_index

\* lines 181-183: a change of error class restarts the index
BackoffStartIndex(error_type) ==
    IF error_type # last_error_type THEN 0 ELSE current_backoff_index

\* lines 185-188
BackoffList(error_type) ==
    IF error_type = "rate_limit" THEN RATE_LIMIT_BACKOFF ELSE SERVER_ERROR_BACKOFF

\* mutant: the index wraps around the table instead of being capped
BackoffIntervalWraps(error_type) ==
    BackoffList(error_type)[
        (BackoffStartIndex(error_type) % Len(BackoffList(error_type))) + 1 ]

\* line 190 (Python indexes from 0, TLA+ sequences from 1)
BackoffInterval(error_type) ==
    BackoffList(error_type)[
        Min(BackoffStartIndex(error_type), Len(BackoffList(error_type)) - 1) + 1 ]

\* mutant: the index advances by two
BackoffNextIndexSkips(error_type) == BackoffStartIndex(error_type) + 2

\* line 191
BackoffNextIndex(error_type) == BackoffStartIndex(error_type) + 1

\* the whole call: returns BackoffInterval(error_type) and updates the state
get_backoff_interval(error_type) ==
    /\ current_backoff_index' = BackoffNextIndex(error_type)
    /\ last_error_type' = error_type
    /\ backoff_log' = Append(backoff_log,
                             [ class |-> error_type, interval |-> BackoffInterval(error_type) ])

(***************************************************************************)
(* AgentConfig.is_path_allowed (config/loader.py).  A path is a sequence   *)
(* of characters; os.path.abspath is modelled on POSIX paths.              *)
(***************************************************************************)
Cwd == << "/" >>    \* working directory of the agent process

\* str.startswith
StartsWith(s, prefix) ==
    /\ Len(prefix) <= Len(s)
    /\ SubSeq(s, 1, Len(prefix)) = prefix

\* the components of s[lo .. hi], split at "/": the two halves are split, and the
\* last component of the first half continues in the first of the second
RECURSIVE SplitRange(_, _, _)
SplitRange(s, lo, hi) ==
    IF lo > hi THEN << << >> >>
    ELSE IF lo = hi THEN (IF s[lo] = "/" THEN << << >>, << >> >> ELSE << << s[lo] >> >>)
    ELSE LET left == SplitRange(s, lo, (lo + hi) \div 2)
             right == SplitRange(s, ((lo + hi) \div 2) + 1, hi)
         IN  SubSeq(left, 1, Len(left) - 1)
             \o << left[Len(left)] \o right[1] >>
             \o SubSeq(right, 2, Len(right))

\* the components of a path, split at "/"
SplitPath(s) == SplitRange(s, 1, Len(s))

\* os.path.normpath on the components of an absolute path: "" and "." are
\* dropped, ".." removes the component before it (and is dropped at the root)
RECURSIVE NormComponents(_, _, _)
NormComponents(comps, i, acc) ==
    IF i > Len(comps) THEN acc
    ELSE IF comps[i] = << >> \/ comps[i] = << "." >> THEN NormComponents(comps, i + 1, acc)
    ELSE IF comps[i] = << ".", "." >>
         THEN NormComponents(comps, i + 1,
                             IF Len(acc) = 0 THEN acc ELSE SubSeq(acc, 1, Len(acc) - 1))
    ELSE NormComponents(comps, i + 1, Append(acc, comps[i]))

RECURSIVE JoinPath(_, _)
JoinPath(comps, i) ==
    IF i > Len(comps) THEN << >>
    ELSE << "/" >> \o comps[i] \o JoinPath(comps, i + 1)

\* os.path.join(Cwd, path): no separator is added after a directory that ends with one
JoinCwd(path) ==
    IF Cwd[Len(Cwd)] = "/" THEN Cwd \o path ELSE Cwd \o << "/" >> \o path

\* os.path.normpath keeps exactly two leading slashes, and reduces three or more to one
TwoLeadingSlashes(s) ==
    /\ Len(s) >= 2 /\ s[1] = "/" /\ s[2] = "/"
    /\ Len(s) >= 3 => s[3] # "/"

\* os.path.abspath: a relative path is joined to the working directory, then normalised
abspath(path) ==
    LET full == IF Len(path) > 0 /\ path[1] = "/" THEN path ELSE JoinCwd(path)
        comps == NormComponents(SplitPath(full), 1, << >>)
        extra == IF TwoLeadingSlashes(full) THEN << "/" >> ELSE << >>
    IN  IF Len(comps) = 0 THEN extra \o << "/" >> ELSE extra \o JoinPath(comps, 1)

\* permissions of the modelled deployment
allowed_paths == << << "/", "a" >> >>
denied_paths == << << "/", "a", "/", "d" >> >>

\* lines 111-113: a denied directory that is a prefix of the path wins
MatchesDenied(path) ==
    \E i \in 1 .. Len(denied_paths) : StartsWith(abspath(path), abspath(denied_paths[i]))

\* lines 116-118
MatchesAllowed(path) ==
    \E i \in 1 .. Len(allowed_paths) : StartsWith(abspath(path), abspath(allowed_paths[i]))

is_path_allowed(path) ==
    IF MatchesDenied(path) THEN FALSE
    ELSE IF MatchesAllowed(path) THEN TRUE
    ELSE FALSE

(***************************************************************************)
(* CheckRegistry (checks/registry.py): checks maps a check type to the     *)
(* class registered for it.                                                *)
(***************************************************************************)
CheckTypes == { "DISK_USAGE", "X" }

\* the registry after the imports of agent.py lines 30-34 (one registered type is kept)
ImportedChecks == [ t \in { "DISK_USAGE" } |-> "DiskUsageCheck" ]

\* mutant: get falls back to a default class for an unknown type
RegistryGetDefault(check_type) ==
    IF check_type \in DOMAIN checks THEN checks[check_type] ELSE "DiskUsageCheck"

\* CheckRegistry.get: the class, or None
RegistryGet(check_type) ==
    IF check_type \in DOMAIN checks THEN checks[check_type] ELSE None

\* mutant: create never reports an unknown type
RegistryCreateNeverNone(check_type) == FALSE

\* CheckRegistry.create returns None exactly when get does
RegistryCreateIsNone(check_type) == RegistryGet(check_type) = None

\* the classes a caller can register
CheckClasses == { "DiskUsageCheck", "CheckA", "CheckB" }

\* create's None, and a check instance: the class that built it and its config
NoCheck == [ class |-> None, config |-> [ present |-> FALSE, paths |-> << >> ] ]
CheckInstance(check_class, config) == [ class |-> check_class, config |-> config ]

\* CheckRegistry.create, lines 68-72
RegistryCreate(check_type, config) ==
    IF RegistryCreateIsNone(check_type) THEN NoCheck
    ELSE CheckInstance(RegistryGet(check_type), config)

\* mutant: the first registration of a type wins
RegistryRegisterKeepsFirst(check_type, check_class) ==
    [ t \in DOMAIN checks \cup { check_type } |->
        IF t \in DOMAIN checks THEN checks[t] ELSE check_class ]

\* CheckRegistry.register, line 38: cls._checks[check_type] = check_class
RegistryRegister(check_type, check_class) ==
    [ t \in DOMAIN checks \cup { check_type } |->
        IF t = check_type THEN check_class ELSE checks[t] ]

\* CheckRegistry.clear, line 87
RegistryClear == [ t \in { } |-> None ]

\* a list holding each element of a set once, as list(d.keys()) does for the
\* keys of a dict (the order of the list is not modelled)
RECURSIVE KeysList(_)
KeysList(keys) ==
    IF keys = { } THEN << >>
    ELSE LET k == CHOOSE x \in keys : TRUE
         IN  << k >> \o KeysList(keys \ { k })

\* CheckRegistry.list_types, line 82
RegistryListTypes == KeysList(DOMAIN checks)

\* history: no CheckRegistry call was made yet
NoRegistryOp == [ op |-> None, type |-> None, class |-> None, config |-> NoCheck.config,
                  replaced |-> None ]

(***************************************************************************)
(* CheckStatus (checks/base.py) and the status map of _execute_task.       *)
(***************************************************************************)
CheckStatusValues == { "passed", "warning", "critical", "error", "failed" }
\* "custom" stands for a status object whose value is none of the five
InternalStatuses == CheckStatusValues \cup { "custom" }
WireStatuses == { "PASSED", "WARNING", "CRITICAL", "ERROR" }

\* agent.py lines 262-268 and the default of status_map.get at line 273
StatusMap(value) ==
    CASE value = "passed" -> "PASSED"
      [] value = "warning" -> "WARNING"
      [] value = "critical" -> "CRITICAL"
      [] value = "error" -> "ERROR"
      [] value = "failed" -> "ERROR"
      [] OTHER -> "ERROR"

(***************************************************************************)
(* Tasks: the poll response and ApiClient.get_tasks.                       *)
(***************************************************************************)
PathAllowed == << "/", "a", "/", "x" >>
PathDenied == << "/", "a", "/", "d" >>
PathChoices == { << >>, << PathAllowed >>, << PathDenied >>,
                 << PathAllowed, PathDenied >>, << PathDenied, PathAllowed >> }

\* the length a "message truncated to a bounded length" may have at most; the
\* names below are longer than it
MessageBound == 64

\* a string of n copies of the character c
RECURSIVE Repeat(_, _)
Repeat(c, n) ==
    IF n = 0 THEN ""
    ELSE IF n = 1 THEN c
    ELSE Repeat(c, n \div 2) \o Repeat(c, n - (n \div 2))

\* a denied path, a check type nobody registered and the text of an exception
\* raised by a check, each longer than MessageBound
LongPathDenied == PathDenied \o << "/" >> \o [ i \in 1 .. MessageBound |-> "x" ]
LongTypeName == Repeat("T", MessageBound + 1)
LongExceptionText == Repeat("e", MessageBound + 1)

\* is_path_allowed on each path that a task of a poll response carries
TaskPaths == { PathAllowed, PathDenied, LongPathDenied }
PathVerdict == [ p \in TaskPaths |-> is_path_allowed(p) ]

NoId == 0           \* the key is absent: dict.get returns None
EmptyId == -1       \* the key is present and holds an empty string
NoConfig == [ present |-> FALSE, paths |-> << >> ]
ConfigOf(paths) == [ present |-> TRUE, paths |-> paths ]

\* one entry of data.tasks in the poll response, in the naming convention conv
WireTask(i, check_type, paths, conv) ==
    [ taskId |-> IF conv = "taskId" THEN i ELSE NoId,
      id |-> IF conv = "taskId" THEN NoId ELSE i,
      checkId |-> "c",
      checkType |-> check_type,
      siteId |-> "s",
      checkConfig |-> IF conv = "taskId" THEN ConfigOf(paths) ELSE NoConfig,
      config |-> IF conv = "taskId" THEN NoConfig ELSE ConfigOf(paths) ]

WellFormedWireTasks(i) ==
    { WireTask(i, t, p, c) : t \in CheckTypes, p \in PathChoices, c \in { "taskId", "id" } }

\* entries lacking one of the keys read with task_data[...]
MalformedWireTasks(i) ==
    { [ WireTask(i, "DISK_USAGE", << >>, "taskId") EXCEPT ![k] = None ] :
        k \in { "checkId", "checkType", "siteId" } }

WireTasks(i) == WellFormedWireTasks(i) \cup MalformedWireTasks(i)

\* the bodies of a 2xx poll response: the i-th entry carries task id i
RECURSIVE BodiesOfLength(_)
BodiesOfLength(n) ==
    IF n = 0 THEN { << >> }
    ELSE { Append(b, t) : b \in BodiesOfLength(n - 1), t \in WireTasks(n) }

PollBodies == UNION { BodiesOfLength(n) : n \in 0 .. MaxTasks }

\* task_data['checkId'], ['checkType'], ['siteId'] raise KeyError when absent
RaisesKeyError(td) == td.checkId = None \/ td.checkType = None \/ td.siteId = None

\* a dict is truthy when it is present and not empty
Truthy(cfg) == cfg.present /\ cfg.paths # << >>

\* a or b takes b when a is None or empty
TruthyId(id) == id \notin { NoId, EmptyId }

\* mutant: only the names taskId and checkConfig are read
ParseTaskNewNamesOnly(td) ==
    [ id |-> td.taskId,
      check_id |-> td.checkId,
      check_type |-> td.checkType,
      site_id |-> td.siteId,
      paths |-> IF td.checkConfig.present THEN td.checkConfig.paths ELSE << >> ]

\* lines 278-285: Task(...) built from one entry
ParseTask(td) ==
    [ id |-> IF TruthyId(td.taskId) THEN td.taskId ELSE td.id,
      check_id |-> td.checkId,
      check_type |-> td.checkType,
      site_id |-> td.siteId,
      paths |-> IF Truthy(td.checkConfig) THEN td.checkConfig.paths
                ELSE IF td.config.present THEN td.config.paths ELSE << >> ]

\* get_tasks raises at the first malformed entry, whatever follows it
BodyRaises(body) == \E i \in 1 .. Len(body) : RaisesKeyError(body[i])

ParseBody(body) == [ i \in 1 .. Len(body) |-> ParseTask(body[i]) ]

\* what get_tasks does with a 2xx response: raise KeyError, or return a list of tasks
GetTasksResults ==
    { IF BodyRaises(body) THEN [ raises |-> TRUE, tasks |-> << >> ]
      ELSE [ raises |-> FALSE, tasks |-> ParseBody(body) ] : body \in PollBodies }

(***************************************************************************)
(* Checks and results.                                                     *)
(***************************************************************************)
Scores == { 30, 100 }

\* what constructing and executing the check bound to a task can do
CheckOutcomes ==
    { [ kind |-> "returns", status |-> s, score |-> c ] : s \in InternalStatuses, c \in Scores }
    \cup { [ kind |-> "raises", status |-> None, score |-> 0 ],
           [ kind |-> "init_raises", status |-> None, score |-> 0 ] }

NoOutcome == [ kind |-> None, status |-> None, score |-> 0 ]

NoResult == [ task_id |-> NoId, status |-> None, score |-> 0,
              message |-> [ text |-> None, arg |-> << >> ] ]

\* _submit_error_result lines 293-299
ErrorResult(task, message) ==
    [ task_id |-> task.id, status |-> "ERROR", score |-> 0, message |-> message ]

\* _execute_task lines 271-278
NormalResult(task, out) ==
    [ task_id |-> task.id, status |-> StatusMap(out.status), score |-> out.score,
      message |-> [ text |-> "result.message", arg |-> << >> ] ]

PathDeniedMessage(path) == [ text |-> "Path not allowed by agent permissions: ", arg |-> path ]
UnknownTypeMessage(check_type) == [ text |-> "Unknown check type: ", arg |-> << check_type >> ]
CheckExceptionMessage == [ text |-> "str(e)", arg |-> << "check failure" >> ]
\* line 286: str(e) of an exception whose text is given
ExceptionMessage(text) == [ text |-> "str(e)", arg |-> << text >> ]

\* len() of a message: the literal part of the f-string and what is formatted
\* into it; "str(e)" and "result.message" stand for the whole of arg
RECURSIVE ArgLen(_, _, _)
ArgLen(arg, lo, hi) ==
    IF lo > hi THEN 0
    ELSE IF lo = hi THEN Len(arg[lo])
    ELSE ArgLen(arg, lo, (lo + hi) \div 2) + ArgLen(arg, ((lo + hi) \div 2) + 1, hi)
MessageLen(message) ==
    (IF message.text \in { "str(e)", "result.message", None } THEN 0 ELSE Len(message.text))
    + ArgLen(message.arg, 1, Len(message.arg))
\* str(e) of an exception raised by submit_result; its wording is not tracked
ApiExceptionMessage(kind) == [ text |-> "str(e)", arg |-> << "submit failure" >> ]

\* mutant: only the first path of the task is checked
FirstDeniedOnlyFirstPath(task) ==
    IF Len(task.paths) > 0 /\ ~PathVerdict[task.paths[1]] THEN 1 ELSE 0

\* lines 237-238: position of the first path of the task that is not allowed, 0 if none
FirstDenied(task) ==
    IF \E i \in 1 .. Len(task.paths) : ~PathVerdict[task.paths[i]]
    THEN CHOOSE i \in 1 .. Len(task.paths) :
            /\ ~PathVerdict[task.paths[i]]
            /\ \A j \in 1 .. i - 1 : PathVerdict[task.paths[j]]
    ELSE 0

(***************************************************************************)
(* HexaScanAgent (agent.py).                                               *)
(***************************************************************************)
\* which exceptions the except clause of each method catches

\* mutant: _send_heartbeat without its try/except
HeartbeatCatchesNothing(kind) == FALSE

HeartbeatCatches(kind) == IsApiError(kind)       \* _send_heartbeat, line 210

\* mutant: _poll_tasks without its try/except
PollCatchesNothing(kind) == FALSE

PollCatches(kind) == IsApiError(kind)            \* _poll_tasks, line 220
ExecuteCatches(kind) == TRUE                     \* _execute_task, line 282: except Exception

\* mutant: _submit_error_result without its try/except
SubmitErrorCatchesNothing(kind) == FALSE

SubmitErrorCatches(kind) == IsApiError(kind)     \* _submit_error_result, line 301

\* mutant: the main loop without its last clause, except Exception
MainLoopHandlerNoCatchAll(kind) ==
    CASE kind = "AuthenticationError" -> [ do |-> "stop", class |-> None, wait |-> 0 ]
      [] kind = "RateLimitError" -> [ do |-> "backoff", class |-> "rate_limit", wait |-> 0 ]
      [] kind = "ServerError" -> [ do |-> "backoff", class |-> "server_error", wait |-> 0 ]
      [] kind = "ConnectionError" -> [ do |-> "wait", class |-> None, wait |-> CONNECTION_RETRY_WAIT ]
      [] OTHER -> [ do |-> "uncaught", class |-> None, wait |-> 0 ]

\* mutant: the last clause waits as the connection clause does
MainLoopHandlerShortWait(kind) ==
    CASE kind = "AuthenticationError" -> [ do |-> "stop", class |-> None, wait |-> 0 ]
      [] kind = "RateLimitError" -> [ do |-> "backoff", class |-> "rate_limit", wait |-> 0 ]
      [] kind = "ServerError" -> [ do |-> "backoff", class |-> "server_error", wait |-> 0 ]
      [] kind = "ConnectionError" -> [ do |-> "wait", class |-> None, wait |-> CONNECTION_RETRY_WAIT ]
      [] OTHER -> [ do |-> "wait", class |-> None, wait |-> CONNECTION_RETRY_WAIT ]

\* the except clauses of the main loop, lines 167-188, tried in order
MainLoopHandler(kind) ==
    CASE kind = "AuthenticationError" -> [ do |-> "stop", class |-> None, wait |-> 0 ]
      [] kind = "RateLimitError" -> [ do |-> "backoff", class |-> "rate_limit", wait |-> 0 ]
      [] kind = "ServerError" -> [ do |-> "backoff", class |-> "server_error", wait |-> 0 ]
      [] kind = "ConnectionError" -> [ do |-> "wait", class |-> None, wait |-> CONNECTION_RETRY_WAIT ]
      [] OTHER -> [ do |-> "wait", class |-> None, wait |-> UNEXPECTED_ERROR_WAIT ]

\* history of get_backoff_interval: a 2xx response leaves a mark after the values
\* returned before it
SuccessMark == [ class |-> "success", interval |-> 0 ]
LogAfterRequest(kind) ==
    IF kind = "ok" /\ backoff_log # << >> /\ backoff_log[Len(backoff_log)] # SuccessMark
    THEN Append(backoff_log, SuccessMark)
    ELSE backoff_log

\* history: consecutive get_tasks 5xx failures with no 2xx response in between
Polls5xxAfter(call, kind) ==
    IF kind = "ok" THEN 0
    ELSE IF call = "get_tasks" /\ kind = "ServerError" THEN Min(polls_5xx + 1, MaxPolls5xx)
    ELSE polls_5xx

\* the positions of start() inside _execute_task
InFlight == { "execute", "submit", "submit_error" }

\* history: the position of the loop when a signal made running false while a
\* task was in flight
NotSignalled == [ pc |-> None, idx |-> 0 ]

\* ApiClient.close and the flag, as stop() does (lines 195-200)
stop ==
    /\ running' = FALSE
    /\ closed' = TRUE

\* an exception of class kind, raised by the ApiClient call `call` whose response
\* had outcome okind, reaches the except clauses of the main loop; an exception
\* that no clause matches leaves start() ("crashed")
Propagate(call, okind, kind) ==
    LET h == MainLoopHandler(kind)
    IN  /\ pc' = IF h.do = "uncaught" THEN "crashed" ELSE "loop"
        /\ IF h.do = "stop" THEN stop ELSE UNCHANGED << running, closed >>
        /\ IF h.do = "backoff"
           THEN /\ get_backoff_interval(h.class)
                /\ current_poll_interval' = BackoffInterval(h.class)
           ELSE /\ current_backoff_index' = AfterRequestIndex(okind)
                /\ last_error_type' = AfterRequestErrorType(okind)
                /\ backoff_log' = LogAfterRequest(okind)
                /\ UNCHANGED current_poll_interval
        /\ slept' = IF h.do = "wait" THEN h.wait ELSE slept
        /\ since_heartbeat' = Min(HEARTBEAT_INTERVAL, since_heartbeat + h.wait)
        /\ last_call' = call
        /\ last_outcome' = okind
        /\ polls_5xx' = Polls5xxAfter(call, okind)

\* the effect of an ApiClient call on the client and on the history, when the
\* call's exception (if any) is caught before the main loop
Returned(call, okind) ==
    /\ current_backoff_index' = AfterRequestIndex(okind)
    /\ last_error_type' = AfterRequestErrorType(okind)
    /\ backoff_log' = LogAfterRequest(okind)
    /\ last_call' = call
    /\ last_outcome' = okind
    /\ polls_5xx' = Polls5xxAfter(call, okind)

InitAgent ==
    /\ pc = "start"
    /\ running = FALSE
    /\ closed = FALSE
    /\ current_poll_interval = 60
    /\ current_backoff_index = 0
    /\ last_error_type = None
    /\ checks = ImportedChecks
    /\ since_heartbeat = HEARTBEAT_INTERVAL
    /\ tasks = << >>
    /\ idx = 1
    /\ pending = NoResult
    /\ in_try = FALSE
    /\ outcome = NoOutcome
    /\ submitted = << >>
    /\ created = { }
    /\ executed = { }
    /\ last_call = None
    /\ last_outcome = None
    /\ slept = 0
    /\ backoff_log = << >>
    /\ polls_5xx = 0
    /\ signalled_at = NotSignalled
    /\ registry_op = NoRegistryOp
    /\ registry_result = NoCheck
    /\ last_response = NoRequest
    /\ poll_body = << >>

\* start(), lines 110-144: configuration, client, flag, signal handlers
Start ==
    /\ pc = "start"
    /\ current_poll_interval' = POLL_INTERVAL
    /\ running' = TRUE
    /\ pc' = "loop"
    /\ UNCHANGED << closed, current_backoff_index, last_error_type, checks, since_heartbeat,
                    tasks, idx, pending, in_try, outcome, submitted, created, executed, last_call,
                    last_outcome, slept, backoff_log, polls_5xx >>
    /\ UNCHANGED signalled_at
    /\ UNCHANGED << registry_op, registry_result, last_response, poll_body >>

\* mutant: while True
LoopExitsNever == FALSE

\* line 146: while self.running
LoopExits == ~running

\* lines 146-151: the while test, then whether the heartbeat is due
LoopTop ==
    /\ pc = "loop"
    /\ pc' = IF LoopExits THEN "done"
             ELSE IF since_heartbeat >= HEARTBEAT_INTERVAL THEN "heartbeat"
             ELSE "poll"
    /\ UNCHANGED << running, closed, current_poll_interval, current_backoff_index,
                    last_error_type, checks, since_heartbeat, tasks, idx, pending, in_try,
                    outcome, submitted, created, executed, last_call, last_outcome, slept,
                    backoff_log, polls_5xx >>
    /\ UNCHANGED signalled_at
    /\ UNCHANGED << registry_op, registry_result, last_response, poll_body >>

\* mutant: a successful heartbeat leaves the interval where it was
SendHeartbeatIntervalKept(kind) == current_poll_interval

\* _current_poll_interval after _send_heartbeat: line 209 runs on success only
SendHeartbeatInterval(kind) ==
    IF kind = "ok" THEN POLL_INTERVAL ELSE current_poll_interval

\* lines 152-153 with _send_heartbeat, lines 202-211
SendHeartbeat ==
    /\ pc = "heartbeat"
    /\ \E o \in RequestOutcomes :
             IF o.kind = "ok" \/ HeartbeatCatches(o.kind)
             THEN /\ Returned("heartbeat", o.kind)
                  /\ current_poll_interval' = SendHeartbeatInterval(o.kind)
                  /\ since_heartbeat' = 0
                  /\ pc' = "poll"
                  /\ UNCHANGED << running, closed, slept >>
             ELSE Propagate("heartbeat", o.kind, o.kind)
    /\ UNCHANGED << checks, tasks, idx, pending, in_try, outcome, submitted, created, executed >>
    /\ UNCHANGED signalled_at
    /\ UNCHANGED << registry_op, registry_result, last_response, poll_body >>

\* line 156 with _poll_tasks, lines 213-222, and get_tasks
PollTasks ==
    /\ pc = "poll"
    /\ \E o \in RequestOutcomes :
             IF o.kind = "ok"
             THEN \E got \in GetTasksResults :
                    IF got.raises
                    THEN /\ Propagate("get_tasks", o.kind, "KeyError")
                         /\ UNCHANGED tasks
                    ELSE /\ Returned("get_tasks", o.kind)
                         /\ tasks' = got.tasks
                         /\ pc' = "tasks"
                         /\ UNCHANGED << running, closed, current_poll_interval, slept,
                                         since_heartbeat >>
             ELSE IF PollCatches(o.kind)
             THEN /\ Returned("get_tasks", o.kind)
                  /\ tasks' = << >>
                  /\ pc' = "tasks"
                  /\ UNCHANGED << running, closed, current_poll_interval, slept,
                                  since_heartbeat >>
             ELSE /\ Propagate("get_tasks", o.kind, o.kind)
                  /\ UNCHANGED tasks
    /\ idx' = 1
    /\ UNCHANGED << checks, pending, in_try, outcome, submitted, created, executed >>
    /\ UNCHANGED signalled_at
    /\ UNCHANGED << registry_op, registry_result, last_response, poll_body >>

\* mutant: the for loop skips every other task
NextTaskIndexSkips == idx + 2

\* line 159: the for loop moves to the next task of the list
NextTaskIndex == idx + 1

\* mutant: the for loop without the test of lines 160-161
AbortsBatchNever == FALSE

\* lines 160-161: if not self.running: break
AbortsBatch == ~running

\* lines 159-162: the for loop's head, with the running test
TaskLoop ==
    /\ pc = "tasks"
    /\ pc' = IF idx > Len(tasks) THEN "sleep"
             ELSE IF AbortsBatch THEN "sleep"
             ELSE "execute"
    /\ UNCHANGED << running, closed, current_poll_interval, current_backoff_index,
                    last_error_type, checks, since_heartbeat, tasks, idx, pending, in_try,
                    outcome, submitted, created, executed, last_call, last_outcome, slept,
                    backoff_log, polls_5xx >>
    /\ UNCHANGED signalled_at
    /\ UNCHANGED << registry_op, registry_result, last_response, poll_body >>

\* _execute_task up to the first submission, lines 231-278
ExecuteTask ==
    /\ pc = "execute"
    /\ LET task == tasks[idx]
           d == FirstDenied(task)
       IN  IF d # 0
           THEN /\ pending' = ErrorResult(task, PathDeniedMessage(task.paths[d]))
                /\ in_try' = TRUE
                /\ pc' = "submit_error"
                /\ outcome' = NoOutcome
                /\ UNCHANGED << created, executed >>
           ELSE IF RegistryCreateIsNone(task.check_type)
           THEN /\ created' = created \cup { task.id }
                /\ pending' = ErrorResult(task, UnknownTypeMessage(task.check_type))
                /\ in_try' = TRUE
                /\ pc' = "submit_error"
                /\ outcome' = NoOutcome
                /\ UNCHANGED executed
           ELSE \E out \in CheckOutcomes :
                  /\ created' = created \cup { task.id }
                  /\ executed' = IF out.kind = "init_raises" THEN executed
                                 ELSE executed \cup { task.id }
                  /\ outcome' = out
                  /\ IF out.kind = "returns"
                     THEN /\ pending' = NormalResult(task, out)
                          /\ in_try' = TRUE
                          /\ pc' = "submit"
                     ELSE /\ pending' = ErrorResult(task, CheckExceptionMessage)
                          /\ in_try' = FALSE
                          /\ pc' = "submit_error"
    /\ submitted' = << >>
    /\ UNCHANGED << running, closed, current_poll_interval, current_backoff_index,
                    last_error_type, checks, since_heartbeat, tasks, idx, last_call,
                    last_outcome, slept, backoff_log, polls_5xx >>
    /\ UNCHANGED signalled_at
    /\ UNCHANGED << registry_op, registry_result, last_response, poll_body >>

\* line 279, and the except clause of lines 282-288 when submit_result raises
SubmitResult ==
    /\ pc = "submit"
    /\ submitted' = Append(submitted, pending)
    /\ \E o \in RequestOutcomes :
             /\ Returned("submit_result", o.kind)
             /\ IF o.kind = "ok"
                THEN /\ pending' = NoResult
                     /\ in_try' = FALSE
                     /\ idx' = NextTaskIndex
                     /\ pc' = "tasks"
                ELSE /\ ExecuteCatches(o.kind)
                     /\ pending' = ErrorResult(tasks[idx], ApiExceptionMessage(o.kind))
                     /\ in_try' = FALSE
                     /\ idx' = idx
                     /\ pc' = "submit_error"
    /\ UNCHANGED << running, closed, current_poll_interval, checks, since_heartbeat, tasks,
                    outcome, created, executed, slept >>
    /\ UNCHANGED signalled_at
    /\ UNCHANGED << registry_op, registry_result, last_response, poll_body >>

\* _submit_error_result, lines 290-302
SubmitErrorResult ==
    /\ pc = "submit_error"
    /\ \E o \in RequestOutcomes :
             IF o.kind = "ok" \/ SubmitErrorCatches(o.kind)
             THEN /\ Returned("submit_result", o.kind)
                  /\ submitted' = Append(submitted, pending)
                  /\ pending' = NoResult
                  /\ in_try' = FALSE
                  /\ idx' = NextTaskIndex
                  /\ pc' = "tasks"
                  /\ UNCHANGED << running, closed, current_poll_interval, since_heartbeat,
                                  slept, tasks, outcome, created, executed, signalled_at >>
             ELSE IF in_try /\ ExecuteCatches(o.kind)
             THEN /\ Returned("submit_result", o.kind)
                  /\ submitted' = Append(submitted, pending)
                  /\ pending' = ErrorResult(tasks[idx], ApiExceptionMessage(o.kind))
                  /\ in_try' = FALSE
                  /\ idx' = idx
                  /\ pc' = "submit_error"
                  /\ UNCHANGED << running, closed, current_poll_interval, since_heartbeat,
                                  slept, tasks, outcome, created, executed, signalled_at >>
             ELSE \* the exception leaves _execute_task and the for loop: the batch
                  \* is over, its history is dropped
                  /\ Propagate("submit_result", o.kind, o.kind)
                  /\ pending' = NoResult
                  /\ in_try' = FALSE
                  /\ tasks' = << >>
                  /\ idx' = 1
                  /\ outcome' = NoOutcome
                  /\ submitted' = << >>
                  /\ created' = { }
                  /\ executed' = { }
                  /\ signalled_at' = NotSignalled
    /\ UNCHANGED checks
    /\ UNCHANGED << registry_op, registry_result, last_response, poll_body >>

\* line 165; the batch is over, its history is dropped
Sleep ==
    /\ pc = "sleep"
    /\ slept' = current_poll_interval
    /\ since_heartbeat' = Min(HEARTBEAT_INTERVAL, since_heartbeat + current_poll_interval)
    /\ tasks' = << >>
    /\ idx' = 1
    /\ outcome' = NoOutcome
    /\ submitted' = << >>
    /\ created' = { }
    /\ executed' = { }
    /\ pc' = "loop"
    /\ UNCHANGED << running, closed, current_poll_interval, current_backoff_index,
                    last_error_type, checks, pending, in_try, last_call, last_outcome,
                    backoff_log, polls_5xx >>
    /\ signalled_at' = NotSignalled
    /\ UNCHANGED << registry_op, registry_result, last_response, poll_body >>

\* _signal_handler, lines 190-193: SIGINT or SIGTERM arrives between two steps
Signal ==
    /\ pc \notin { "start", "done", "crashed" }
    /\ stop
    /\ signalled_at' = IF running /\ pc \in InFlight
                       THEN [ pc |-> pc, idx |-> idx ] ELSE signalled_at
    /\ UNCHANGED << pc, current_poll_interval, current_backoff_index, last_error_type,
                    checks, since_heartbeat, tasks, idx, pending, in_try, outcome, submitted,
                    created, executed, last_call, last_outcome, slept, backoff_log,
                    polls_5xx >>
    /\ UNCHANGED << registry_op, registry_result, last_response, poll_body >>

Init == InitAgent

Next ==
    \/ Start
    \/ LoopTop
    \/ SendHeartbeat
    \/ PollTasks
    \/ TaskLoop
    \/ ExecuteTask
    \/ SubmitResult
    \/ SubmitErrorResult
    \/ Sleep
    \/ Signal

Spec == Init /\ [][Next]_vars

(***************************************************************************)
(* The ApiClient, and the methods of the agent that use its backoff, as    *)
(* any caller may drive them: requests, get_backoff_interval calls, the    *)
(* backoff clauses of start() and _send_heartbeat in any order, from the   *)
(* state the constructors leave (api_client.py lines 96-98, agent.py line  *)
(* 63).                                                                    *)
(***************************************************************************)
ApiCalls == { "heartbeat", "get_tasks", "submit_result" }
ErrorTypes == { "rate_limit", "server_error" }

AgentVars == << pc, running, closed, current_poll_interval, checks, since_heartbeat, tasks,
                idx, pending, in_try, outcome, submitted, created, executed, slept,
                signalled_at, registry_op, registry_result, poll_body >>

InitBackoff ==
    /\ pc = "client"
    /\ running = FALSE
    /\ closed = FALSE
    /\ current_poll_interval = 60
    /\ current_backoff_index = 0
    /\ last_error_type = None
    /\ checks = ImportedChecks
    /\ since_heartbeat = HEARTBEAT_INTERVAL
    /\ tasks = << >>
    /\ idx = 1
    /\ pending = NoResult
    /\ in_try = FALSE
    /\ outcome = NoOutcome
    /\ submitted = << >>
    /\ created = { }
    /\ executed = { }
    /\ last_call = None
    /\ last_outcome = None
    /\ slept = 0
    /\ backoff_log = << >>
    /\ polls_5xx = 0
    /\ signalled_at = NotSignalled
    /\ registry_op = NoRegistryOp
    /\ registry_result = NoCheck
    /\ last_response = NoRequest
    /\ poll_body = << >>

\* the variables of the agent that no call of the drivers below touches
OtherAgentVars == << pc, running, closed, checks, since_heartbeat, tasks, idx, pending,
                     in_try, outcome, submitted, created, executed, slept, signalled_at,
                     registry_op, registry_result, poll_body >>

\* heartbeat, get_tasks or submit_result through _request
CallRequest ==
    /\ pc = "client"
    /\ Len(backoff_log) < MaxCalls
    /\ \E call \in ApiCalls, r \in Responses :
          /\ Returned(call, RequestOutcome(r).kind)
          /\ last_response' = [ made |-> TRUE, response |-> r, outcome |-> RequestOutcome(r) ]
    /\ UNCHANGED AgentVars

CallGetBackoffInterval ==
    /\ pc = "client"
    /\ Len(backoff_log) < MaxCalls
    /\ \E error_type \in ErrorTypes : get_backoff_interval(error_type)
    /\ last_call' = "get_backoff_interval"
    /\ last_outcome' = None
    /\ UNCHANGED << polls_5xx, last_response >>
    /\ UNCHANGED AgentVars

\* the bodies of the except RateLimitError and except ServerError clauses of
\* start(), lines 172-180, entered with the client in any state
CallBackoffHandler ==
    /\ pc = "client"
    /\ Len(backoff_log) < MaxCalls
    /\ \E error_type \in ErrorTypes :
          /\ get_backoff_interval(error_type)
          /\ current_poll_interval' = BackoffInterval(error_type)
    /\ last_call' = "get_backoff_interval"
    /\ last_outcome' = None
    /\ UNCHANGED << polls_5xx, last_response >>
    /\ UNCHANGED OtherAgentVars

\* _send_heartbeat, lines 202-211, called with the agent's interval in any state
CallSendHeartbeat ==
    /\ pc = "client"
    /\ Len(backoff_log) < MaxCalls
    /\ \E r \in Responses :
          /\ Returned("_send_heartbeat", RequestOutcome(r).kind)
          /\ current_poll_interval' = SendHeartbeatInterval(RequestOutcome(r).kind)
          /\ last_response' = [ made |-> TRUE, response |-> r, outcome |-> RequestOutcome(r) ]
    /\ UNCHANGED OtherAgentVars

NextBackoff ==
    \/ CallRequest
    \/ CallGetBackoffInterval
    \/ CallBackoffHandler
    \/ CallSendHeartbeat

SpecBackoff == InitBackoff /\ [][NextBackoff]_vars

(***************************************************************************)
(* The CheckRegistry alone, as any caller may drive it: register, clear,   *)
(* create and list_types in any order, from the registry the imports of    *)
(* agent.py leave.                                                         *)
(***************************************************************************)
CreateConfigs == { NoConfig, ConfigOf(<< PathAllowed >>) }

NonRegistryVars == << pc, running, closed, current_poll_interval, current_backoff_index,
                      last_error_type, since_heartbeat, tasks, idx, pending, in_try, outcome,
                      submitted, created, executed, last_call, last_outcome, slept,
                      backoff_log, polls_5xx, signalled_at, last_response, poll_body >>

InitRegistry ==
    /\ pc = "registry"
    /\ running = FALSE
    /\ closed = FALSE
    /\ current_poll_interval = 60
    /\ current_backoff_index = 0
    /\ last_error_type = None
    /\ checks = ImportedChecks
    /\ since_heartbeat = HEARTBEAT_INTERVAL
    /\ tasks = << >>
    /\ idx = 1
    /\ pending = NoResult
    /\ in_try = FALSE
    /\ outcome = NoOutcome
    /\ submitted = << >>
    /\ created = { }
    /\ executed = { }
    /\ last_call = None
    /\ last_outcome = None
    /\ slept = 0
    /\ backoff_log = << >>
    /\ polls_5xx = 0
    /\ signalled_at = NotSignalled
    /\ registry_op = NoRegistryOp
    /\ registry_result = NoCheck
    /\ last_response = NoRequest
    /\ poll_body = << >>

\* @CheckRegistry.register(check_type) applied to check_class
CallRegister ==
    /\ pc = "registry"
    /\ \E check_type \in CheckTypes, check_class \in CheckClasses :
          /\ checks' = RegistryRegister(check_type, check_class)
          /\ registry_op' = [ NoRegistryOp EXCEPT !.op = "register", !.type = check_type,
                                                  !.class = check_class,
                                                  !.replaced = RegistryGet(check_type) ]
          /\ registry_result' = NoCheck
    /\ UNCHANGED NonRegistryVars

CallClear ==
    /\ pc = "registry"
    /\ checks' = RegistryClear
    /\ registry_op' = [ NoRegistryOp EXCEPT !.op = "clear" ]
    /\ registry_result' = NoCheck
    /\ UNCHANGED NonRegistryVars

CallCreate ==
    /\ pc = "registry"
    /\ \E check_type \in CheckTypes, config \in CreateConfigs :
          /\ registry_op' = [ NoRegistryOp EXCEPT !.op = "create", !.type = check_type,
                                                  !.config = config ]
          /\ registry_result' = RegistryCreate(check_type, config)
    /\ UNCHANGED checks
    /\ UNCHANGED NonRegistryVars

CallListTypes ==
    /\ pc = "registry"
    /\ registry_op' = [ NoRegistryOp EXCEPT !.op = "list_types" ]
    /\ registry_result' = RegistryListTypes
    /\ UNCHANGED checks
    /\ UNCHANGED NonRegistryVars

NextRegistry ==
    \/ CallRegister
    \/ CallClear
    \/ CallCreate
    \/ CallListTypes

SpecRegistry == InitRegistry /\ [][NextRegistry]_vars

(***************************************************************************)
(* Properties.                                                             *)
(***************************************************************************)
\* _execute_task has returned for the task before position idx, whose
\* submissions are in submitted
TaskDone == pc \in { "tasks", "sleep" } /\ idx > 1
DoneTask == tasks[idx - 1]

HasDeniedPath(task) == \E i \in 1 .. Len(task.paths) : ~PathVerdict[task.paths[i]]

\* C1: every task that entered _execute_task had submit_result called exactly
\* once for its id, never zero times and never twice, whatever the check and
\* the API client did.
C1_ExactlyOneSubmission ==
    /\ Len(submitted) <= 1
    /\ TaskDone => /\ Len(submitted) = 1
                   /\ submitted[1].task_id = DoneTask.id

\* C2: a task with a denied path in config.paths gets exactly one result, with
\* status ERROR and score 0; CheckRegistry.create is not called for it and no
\* execute() runs, wherever the denied path is and whatever the check type.
C2_DeniedPathOneError ==
    /\ \A i \in 1 .. Len(tasks) :
          HasDeniedPath(tasks[i]) => tasks[i].id \notin created \cup executed
    /\ (pc \in { "submit", "submit_error" } /\ HasDeniedPath(tasks[idx])) =>
          /\ pc = "submit_error"
          /\ submitted = << >>
          /\ pending.status = "ERROR" /\ pending.score = 0
    /\ (TaskDone /\ HasDeniedPath(DoneTask)) =>
          /\ Len(submitted) = 1
          /\ submitted[1].task_id = DoneTask.id
          /\ submitted[1].status = "ERROR"
          /\ submitted[1].score = 0

\* C2 witness: a task of unregistered type whose second path is the denied one
\* is done, and the submission of its result failed
C2_Witness ==
    /\ TaskDone
    /\ Len(DoneTask.paths) = 2
    /\ is_path_allowed(DoneTask.paths[1])
    /\ ~is_path_allowed(DoneTask.paths[2])
    /\ DoneTask.check_type \notin DOMAIN checks
    /\ last_outcome = "ServerError"
    /\ Len(submitted) = 1

\* C3: when a check raises inside execute(), exactly one result is submitted
\* for the task, with status ERROR, score 0 and the exception's text as
\* message; the exception does not reach the handlers of the main loop, and
\* the for loop goes on to dispatch the next task of the batch (as long as
\* running is true).
C3_CheckFailureStep ==
    /\ (pc = "execute" /\ pc' # pc /\ outcome'.kind = "raises") =>
          /\ pc' = "submit_error"
          /\ submitted' = << >>
          /\ pending' = [ task_id |-> tasks[idx].id, status |-> "ERROR", score |-> 0,
                          message |-> CheckExceptionMessage ]
    /\ (pc = "submit_error" /\ outcome.kind = "raises" /\ pc' # pc) =>
          /\ pc' = "tasks"
          /\ submitted' = << pending >>
          /\ tasks' = tasks
          /\ idx' = idx + 1
    /\ (pc = "tasks" /\ outcome.kind = "raises" /\ idx <= Len(tasks) /\ running /\ pc' # pc) =>
          /\ pc' = "execute"
          /\ idx' = idx

C3_CheckFailureContained == [][C3_CheckFailureStep]_vars

\* C3 witness: the second task of a batch is being dispatched after the check
\* of the first one raised and the submission of its error result failed
C3_Witness ==
    /\ pc = "execute"
    /\ idx = 2
    /\ outcome.kind = "raises"
    /\ last_call = "submit_result"
    /\ last_outcome = "RateLimitError"
    /\ Len(submitted) = 1
    /\ submitted[1].status = "ERROR"
    /\ submitted[1].message = CheckExceptionMessage

Registered(task) == task.check_type \in DOMAIN checks
BatchHasUnknownType == \E j \in 1 .. Len(tasks) : ~Registered(tasks[j])
ReturnedPassed100 == outcome = [ kind |-> "returns", status |-> "passed", score |-> 100 ]

\* C4 as claimed: in any batch, a task whose checkType is not registered gets
\* the result {ERROR, 0, "Unknown check type: <checkType>"}, and a task before
\* or after it with allowed paths and a registered check that returned
\* Passed/100 has {PASSED, 100} submitted for it.
C4_UnknownTypeAnyPaths ==
    TaskDone =>
       /\ ~Registered(DoneTask) =>
             submitted = << [ task_id |-> DoneTask.id, status |-> "ERROR", score |-> 0,
                              message |-> UnknownTypeMessage(DoneTask.check_type) ] >>
       /\ (BatchHasUnknownType /\ Registered(DoneTask) /\ ~HasDeniedPath(DoneTask)
             /\ ReturnedPassed100) =>
             /\ submitted[1].task_id = DoneTask.id
             /\ submitted[1].status = "PASSED"
             /\ submitted[1].score = 100

\* C4 amended: for a task whose checkType is not registered and none of whose
\* paths is denied (the path check of lines 236-245 runs before the registry
\* is asked, so a denied path wins over the unknown type), the first result
\* submitted is {ERROR, 0, "Unknown check type: <checkType>"}; and for a task
\* before or after it with allowed paths and a registered check that returned
\* Passed/100, the first result submitted is {PASSED, 100}.
C4_UnknownTypeAllowedPaths ==
    TaskDone =>
       /\ (~Registered(DoneTask) /\ ~HasDeniedPath(DoneTask)) =>
             /\ Len(submitted) >= 1
             /\ submitted[1] = [ task_id |-> DoneTask.id, status |-> "ERROR", score |-> 0,
                                 message |-> UnknownTypeMessage(DoneTask.check_type) ]
       /\ (BatchHasUnknownType /\ Registered(DoneTask) /\ ~HasDeniedPath(DoneTask)
             /\ ReturnedPassed100) =>
             /\ submitted[1].task_id = DoneTask.id
             /\ submitted[1].status = "PASSED"
             /\ submitted[1].score = 100

\* C4 witness: the second task, with an allowed path and a registered check
\* that returned Passed/100, is done after a first task of unregistered type
C4_Witness ==
    /\ pc = "tasks"
    /\ idx = 3
    /\ ~Registered(tasks[1])
    /\ ~HasDeniedPath(tasks[1])
    /\ tasks[2].paths = << PathAllowed >>
    /\ Registered(tasks[2])
    /\ ReturnedPassed100
    /\ Len(submitted) = 1
    /\ submitted[1].status = "PASSED"
    /\ created = { 1, 2 }
    /\ executed = { 2 }

\* C5: when the check returns status s and score c, every result submitted for
\* the task has the wire status the map gives for s (one of PASSED, WARNING,
\* CRITICAL, ERROR) and the score c.
C5_EveryResultMapped ==
    outcome.kind = "returns" =>
       \A i \in 1 .. Len(submitted) :
          /\ submitted[i].status \in WireStatuses
          /\ submitted[i].status =
                (CASE outcome.status = "passed" -> "PASSED"
                   [] outcome.status = "warning" -> "WARNING"
                   [] outcome.status = "critical" -> "CRITICAL"
                   [] OTHER -> "ERROR")
          /\ submitted[i].score = outcome.score

\* C6: once a heartbeat has been answered 401 or 403 the loop stops: running is
\* false and no heartbeat or fetchTasks call is about to be made.
C6_HeartbeatAuthStops ==
    (last_call = "heartbeat" /\ last_outcome = "AuthenticationError") =>
       /\ ~running
       /\ pc \notin { "heartbeat", "poll" }

\* C7: once a heartbeat has been answered 429, whatever its Retry-After header,
\* the poll interval used for the next sleep is the first rate-limit backoff
\* value.
C7_HeartbeatRateLimitBacksOff ==
    (last_call = "heartbeat" /\ last_outcome = "RateLimitError") =>
       current_poll_interval = RATE_LIMIT_BACKOFF[1]

\* C8: after the n-th consecutive fetchTasks failure with a 5xx response (no
\* successful API call in between), current_poll_interval is the n-th
\* server-error backoff value, the last one from the third failure on.
C8_PollServerErrorBacksOff ==
    (last_call = "get_tasks" /\ last_outcome = "ServerError") =>
       current_poll_interval =
          SERVER_ERROR_BACKOFF[Min(polls_5xx, Len(SERVER_ERROR_BACKOFF))]

\* C9: for each error class, the values returned by consecutive
\* get_backoff_interval calls of that class (no success and no call of the
\* other class in between) never decrease, and no returned value exceeds the
\* last entry of the class's table: 600 for rate_limit, 1200 for server_error.
C9_BackoffMonotoneBounded ==
    \A i \in 1 .. Len(backoff_log) :
       backoff_log[i].class \in ErrorTypes =>
          /\ backoff_log[i].interval <=
                (IF backoff_log[i].class = "rate_limit" THEN 600 ELSE 1200)
          /\ (i > 1 /\ backoff_log[i - 1].class = backoff_log[i].class) =>
                backoff_log[i - 1].interval <= backoff_log[i].interval

\* C9 witness: five rate_limit calls in a row, the last three at the cap
C9_Witness ==
    /\ Len(backoff_log) = 5
    /\ \A i \in 1 .. 5 : backoff_log[i].class = "rate_limit"
    /\ backoff_log[2].interval = 240
    /\ backoff_log[3].interval = 600
    /\ backoff_log[5].interval = 600

\* C10: right after a 2xx response to heartbeat, get_tasks or submit_result
\* the backoff index is 0 and the last error class is cleared, and the next
\* get_backoff_interval call returns the first entry of its class's table
\* (120 for rate_limit, 300 for server_error), whatever the state was before.
C10_SuccessResetsBackoff ==
    /\ (last_call \in ApiCalls /\ last_outcome = "ok") =>
          /\ current_backoff_index = 0
          /\ last_error_type = None
          /\ BackoffInterval("rate_limit") = 120
          /\ BackoffInterval("server_error") = 300
    /\ \A i \in 2 .. Len(backoff_log) :
          backoff_log[i - 1] = SuccessMark =>
             backoff_log[i].interval =
                (IF backoff_log[i].class = "rate_limit" THEN 120 ELSE 300)

\* C10 witness: two server_error calls, a 2xx response to submit_result, and
\* then a server_error call that returns 300 again
C10_Witness ==
    /\ Len(backoff_log) = 4
    /\ backoff_log[1] = [ class |-> "server_error", interval |-> 300 ]
    /\ backoff_log[2] = [ class |-> "server_error", interval |-> 600 ]
    /\ backoff_log[3] = SuccessMark
    /\ backoff_log[4] = [ class |-> "server_error", interval |-> 300 ]
    /\ last_call = "get_backoff_interval"

\* C11: a get_backoff_interval call for a class other than the class of the
\* previous call returns the first entry of the new class's table, whatever
\* index the previous class had reached, and so does a later call that
\* switches back.
C11_ClassSwitchRestarts ==
    /\ \A e \in ErrorTypes :
          (last_error_type \in ErrorTypes /\ e # last_error_type) =>
             BackoffInterval(e) = BackoffList(e)[1]
    /\ \A i \in 2 .. Len(backoff_log) :
          (/\ backoff_log[i].class \in ErrorTypes
           /\ backoff_log[i - 1].class \in ErrorTypes
           /\ backoff_log[i].class # backoff_log[i - 1].class) =>
             backoff_log[i].interval = BackoffList(backoff_log[i].class)[1]

\* C11 witness: rate_limit has reached its third entry, a server_error call
\* returns 300, and switching back to rate_limit returns 120
C11_Witness ==
    /\ Len(backoff_log) = 5
    /\ backoff_log[3] = [ class |-> "rate_limit", interval |-> 600 ]
    /\ backoff_log[4] = [ class |-> "server_error", interval |-> 300 ]
    /\ backoff_log[5] = [ class |-> "rate_limit", interval |-> 120 ]

\* the number of entries of the class of backoff_log[i] that end at position
\* i with no other class and no success in between
RECURSIVE SameClassRun(_)
SameClassRun(i) ==
    IF i > 1 /\ backoff_log[i - 1].class = backoff_log[i].class
    THEN SameClassRun(i - 1) + 1
    ELSE 1

\* C12: every get_backoff_interval call advances the index by exactly one and
\* returns the table value at the capped index: the n-th consecutive call of a
\* class, counted from a reset state, returns the n-th entry of the class's
\* table, the last entry from the third call on (120, 240, 600, 600 for
\* rate_limit and 300, 600, 1200, 1200 for server_error).
C12_AdvancesByOne ==
    /\ \A i \in 1 .. Len(backoff_log) :
          backoff_log[i].class \in ErrorTypes =>
             backoff_log[i].interval =
                (IF backoff_log[i].class = "rate_limit"
                 THEN << 120, 240, 600 >> ELSE << 300, 600, 1200 >>)[Min(SameClassRun(i), 3)]
    /\ (backoff_log # << >> /\ backoff_log[Len(backoff_log)].class \in ErrorTypes) =>
          current_backoff_index = SameClassRun(Len(backoff_log))

\* C12 witness: four server_error calls from the reset state
C12_Witness ==
    /\ Len(backoff_log) = 4
    /\ \A i \in 1 .. 4 : backoff_log[i].class = "server_error"
    /\ backoff_log[3].interval = 1200
    /\ backoff_log[4].interval = 1200
    /\ current_backoff_index = 4

\* C13: once the loop is running, no failure of one iteration (an ApiError of
\* any kind from heartbeat, get_tasks or submit_result, an exception from a
\* check, a malformed poll response) lets an exception leave start(); start()
\* returns only with running false, and running becomes false only through
\* stop(), called by the signal handler or by the authentication handler of
\* the main loop.
C13_RunningLeftStep ==
    (running /\ ~running') =>
       /\ closed'
       /\ \/ pc' = pc
          \/ (pc' = "loop" /\ last_outcome' = "AuthenticationError")

C13_LoopNeverCrashes ==
    /\ [](pc # "crashed" /\ (pc = "done" => ~running))
    /\ [][C13_RunningLeftStep]_vars

\* C13 witness: the loop is running and about to start a new iteration after
\* a malformed poll response was absorbed by the last clause of the loop
\* (sleep of 60 seconds)
C13_Witness ==
    /\ pc = "loop"
    /\ running
    /\ last_call = "get_tasks"
    /\ last_outcome = "ok"
    /\ slept = UNEXPECTED_ERROR_WAIT
    /\ current_poll_interval = POLL_INTERVAL

\* C14: when a signal makes running false while task k of a batch is in
\* flight, task k is not interrupted (its check is created and executed as it
\* would have been, and its result is submitted), and no task after k is
\* dispatched: none of them is created, executed or submitted.
C14_InFlightCompletes ==
    signalled_at # NotSignalled =>
       LET k == signalled_at.idx
       IN  /\ ~running
           /\ created \cup executed \subseteq { tasks[j].id : j \in 1 .. k }
           /\ pc \in InFlight => idx = k
           /\ pc \in { "tasks", "sleep" } =>
                 /\ idx = k + 1
                 /\ Len(submitted) >= 1
                 /\ \A i \in 1 .. Len(submitted) : submitted[i].task_id = tasks[k].id
                 /\ (FirstDenied(tasks[k]) = 0 /\ ~RegistryCreateIsNone(tasks[k].check_type)) =>
                       /\ tasks[k].id \in created
                       /\ outcome.kind \in { "returns", "raises", "init_raises" }
                       /\ outcome.kind # "init_raises" => tasks[k].id \in executed
                       /\ outcome.kind = "returns" =>
                             submitted[1] = NormalResult(tasks[k], outcome)
           /\ pc \notin InFlight \cup { "tasks", "sleep" } => pc \in { "loop", "done" }

\* C14 witness: the signal arrived before the check of the first of two tasks
\* ran; the check then returned, its result was submitted, and the loop left
\* the batch without dispatching the second task
C14_Witness ==
    /\ signalled_at = [ pc |-> "execute", idx |-> 1 ]
    /\ pc = "sleep"
    /\ Len(tasks) = 2
    /\ idx = 2
    /\ outcome.kind = "returns"
    /\ executed = { 1 }
    /\ Len(submitted) = 1
    /\ last_outcome = "ok"

\* C15: the SIGINT/SIGTERM handler only sets running to false: at whatever
\* point of an iteration the signal arrives, the step changes no other state
\* of the agent, in particular not the API client's transport, the backoff
\* state or the current poll interval.
C15_SignalStep ==
    (running /\ ~running' /\ pc' = pc) =>
       UNCHANGED << closed, current_backoff_index, last_error_type, current_poll_interval,
                    checks, since_heartbeat, tasks, idx, pending, in_try >>

C15_SignalOnlySetsFlag == [][C15_SignalStep]_vars

\* C16: within one iteration the operations are strictly ordered: the
\* heartbeat (if due), then get_tasks, then for each task in the order of the
\* poll response its dispatch followed by its result submission, then the
\* sleep.  The submission for task i precedes the dispatch of task i+1, and no
\* heartbeat or get_tasks call is made between the dispatch of the first task
\* and the submission for the last one.  An iteration that an exception cuts
\* short goes from the failed operation to the handlers of the loop.
C16_OrderedStep ==
    /\ (pc = "loop" /\ pc' # pc) =>
          /\ pc' \in { "heartbeat", "poll", "done" }
          /\ UNCHANGED last_call
    /\ (pc = "heartbeat" /\ pc' # pc) =>
          /\ pc' \in { "poll", "loop" }
          /\ last_call' = "heartbeat"
    /\ (pc = "poll" /\ pc' # pc) =>
          /\ pc' \in { "tasks", "loop" }
          /\ last_call' = "get_tasks"
          /\ idx' = 1
    /\ (pc = "tasks" /\ pc' # pc) =>
          /\ pc' \in { "execute", "sleep" }
          /\ UNCHANGED << tasks, idx, last_call >>
          /\ pc' = "execute" =>
                /\ idx <= Len(tasks)
                /\ idx > 1 =>
                      /\ submitted # << >>
                      /\ submitted[Len(submitted)].task_id = tasks[idx - 1].id
                      /\ last_call = "submit_result"
    /\ (pc = "execute" /\ pc' # pc) =>
          /\ pc' \in { "submit", "submit_error" }
          /\ pending'.task_id = tasks[idx].id
          /\ UNCHANGED << tasks, idx, last_call >>
    /\ (pc \in { "submit", "submit_error" } /\ pc' # "loop" /\ submitted' # submitted) =>
          /\ submitted' = Append(submitted, pending)
          /\ pending.task_id = tasks[idx].id
          /\ last_call' = "submit_result"
          /\ tasks' = tasks
          /\ \/ pc' = "tasks" /\ idx' = idx + 1
             \/ pc' = "submit_error" /\ idx' = idx
    /\ (pc \in { "submit", "submit_error" } /\ pc' = "loop") =>
          /\ pending.task_id = tasks[idx].id
          /\ last_call' = "submit_result"
    /\ (pc = "sleep" /\ pc' # pc) =>
          /\ pc' = "loop"
          /\ UNCHANGED last_call
    /\ (pc \in InFlight \/ (pc = "tasks" /\ idx > 1)) =>
          /\ last_call' # last_call => last_call' = "submit_result"
          /\ pc' \notin { "heartbeat", "poll" }

C16_IterationOrdered == [][C16_OrderedStep]_vars

\* C16 witness: an iteration that sent the heartbeat, polled two tasks,
\* executed and submitted both in order, and is about to sleep
C16_Witness ==
    /\ pc = "sleep"
    /\ running
    /\ since_heartbeat = 0
    /\ Len(tasks) = 2
    /\ idx = 3
    /\ executed = { 1, 2 }
    /\ last_call = "submit_result"
    /\ submitted # << >>
    /\ submitted[1].task_id = tasks[2].id

\* C17: after any sequence of register and clear calls, create(T, C) returns
\* a check built with C by the class registered for T when T is registered at
\* that moment, and returns None when T is not (never registered, or removed
\* by clear); create leaves the registry as it was.
C17_CreateStep ==
    (registry_op'.op = "create" /\ registry_op' # registry_op) => checks' = checks

C17_CreateNeverFails ==
    /\ [](registry_op.op = "create" =>
             IF registry_op.type \in DOMAIN checks
             THEN /\ registry_result # NoCheck
                  /\ registry_result.class = checks[registry_op.type]
                  /\ registry_result.config = registry_op.config
             ELSE registry_result = NoCheck)
    /\ [][C17_CreateStep]_vars

\* C17 witness: create("DISK_USAGE") returned None after clear had removed the
\* type the imports registered
C17_Witness ==
    /\ registry_op.op = "create"
    /\ registry_op.type = "DISK_USAGE"
    /\ checks = RegistryClear
    /\ registry_result = NoCheck

\* the number of positions of a list that hold x
Occurrences(list, x) == Cardinality({ i \in 1 .. Len(list) : list[i] = x })

\* C18: registering a type that is already registered overwrites its entry:
\* after register(T, A) then register(T, B), create(T) builds a B, list_types
\* contains T exactly once, and the entries of all other types are unchanged.
C18_RegisterStep ==
    (registry_op'.op = "register" /\ registry_op'.replaced # None) =>
       /\ DOMAIN checks' = DOMAIN checks
       /\ \A t \in DOMAIN checks :
             checks'[t] = IF t = registry_op'.type THEN registry_op'.class ELSE checks[t]

C18_LastRegistrationWins ==
    /\ [](registry_op.op = "register" =>
             /\ \A c \in CreateConfigs :
                   RegistryCreate(registry_op.type, c) = CheckInstance(registry_op.class, c)
             /\ Occurrences(RegistryListTypes, registry_op.type) = 1)
    /\ [][C18_RegisterStep]_vars

\* C18 witness: "X" was registered with CheckA and has just been registered
\* again with CheckB, next to the entry of "DISK_USAGE"
C18_Witness ==
    /\ registry_op.op = "register"
    /\ registry_op.type = "X"
    /\ registry_op.class = "CheckB"
    /\ registry_op.replaced = "CheckA"
    /\ checks = [ t \in CheckTypes |-> IF t = "X" THEN "CheckB" ELSE "DiskUsageCheck" ]

\* the kind the classification table gives for an HTTP outcome
ClaimedKind(status) ==
    IF status = NoResponse THEN "ConnectionError"
    ELSE IF status \in 200 .. 299 THEN "ok"
    ELSE IF status \in { 401, 403 } THEN "AuthenticationError"
    ELSE IF status = 429 THEN "RateLimitError"
    ELSE IF status \in 500 .. 599 THEN "ServerError"
    ELSE "ApiError"

\* C19: every API call outcome is classified into exactly one kind, fixed by
\* the HTTP outcome alone: 2xx success, 401 or 403 AuthenticationError, 429
\* RateLimitError carrying retry_after (the Retry-After header, 120 when the
\* header is absent), 5xx ServerError, any other status ApiError, transport
\* failure ConnectionError; only the success case changes the backoff state.
C19_RequestStep ==
    (last_response'.made /\ last_call' # "get_backoff_interval"
        /\ last_response'.outcome.kind # "ok") =>
       UNCHANGED << current_backoff_index, last_error_type >>

C19_ClassifiedByStatus ==
    /\ [](last_response.made =>
             /\ last_response.outcome.kind = ClaimedKind(last_response.response.status)
             /\ last_response.response.status = 429 =>
                   last_response.outcome.retry_after =
                      (IF last_response.response.retry_after = NoHeader THEN 120
                       ELSE last_response.response.retry_after))
    /\ [][C19_RequestStep]_vars

\* C20: after every _send_heartbeat whose request succeeds,
\* current_poll_interval is the configured poll interval, whatever value it
\* held before; a _send_heartbeat whose request fails leaves it unchanged.
C20_HeartbeatStep ==
    last_call' = "_send_heartbeat" =>
       current_poll_interval' =
          (IF last_outcome' = "ok" THEN POLL_INTERVAL ELSE current_poll_interval)

C20_HeartbeatResetsInterval ==
    /\ []((last_call = "_send_heartbeat" /\ last_outcome = "ok") =>
             current_poll_interval = POLL_INTERVAL)
    /\ [][C20_HeartbeatStep]_vars

\* C20 witness: the server_error clause of the loop ran twice (the interval
\* was 600), and a heartbeat then succeeded
C20_Witness ==
    /\ backoff_log = << [ class |-> "server_error", interval |-> 300 ],
                        [ class |-> "server_error", interval |-> 600 ],
                        SuccessMark >>
    /\ last_call = "_send_heartbeat"
    /\ last_outcome = "ok"
    /\ current_poll_interval = POLL_INTERVAL

(***************************************************************************)
(* C21: an ApiError raised by heartbeat or by get_tasks is caught where    *)
(* the call is made.  The failure changes neither running nor              *)
(* current_poll_interval; a failed heartbeat is followed by the poll of    *)
(* the same iteration; a failed poll stands for an empty task list, so no  *)
(* task is dispatched and the loop goes on to sleep current_poll_interval. *)
(***************************************************************************)
FailedWith(call) == last_call = call /\ IsApiError(last_outcome)

C21_CaughtStep ==
    /\ (pc = "heartbeat" /\ pc' # pc /\ IsApiError(last_outcome'))
          => /\ running' = running
             /\ current_poll_interval' = current_poll_interval
             /\ pc' = "poll"
    /\ (pc = "poll" /\ pc' # pc /\ IsApiError(last_outcome'))
          => /\ running' = running
             /\ current_poll_interval' = current_poll_interval
             /\ tasks' = << >>
             /\ pc' = "tasks"
    /\ (pc = "tasks" /\ FailedWith("get_tasks") /\ pc' # pc) => pc' = "sleep"
    /\ (pc = "sleep" /\ FailedWith("get_tasks") /\ pc' # pc)
          => /\ slept' = current_poll_interval
             /\ pc' = "loop"

C21_ApiErrorCaughtAtCallSite ==
    /\ [](pc \in InFlight => ~FailedWith("get_tasks"))
    /\ [][C21_CaughtStep]_vars

\* a poll failed with a 5xx response in an iteration that sent a heartbeat, and
\* the loop has slept the poll interval after it
C21_Witness ==
    /\ pc = "loop"
    /\ running
    /\ FailedWith("get_tasks")
    /\ last_outcome = "ServerError"
    /\ since_heartbeat = POLL_INTERVAL
    /\ slept = current_poll_interval

(***************************************************************************)
(* _execute_task alone (agent.py lines 224-288, with _submit_error_result),*)
(* called once with any task: the names carried by the task and the text   *)
(* of the exception a check raises may have any length.                    *)
(***************************************************************************)
MessageTypes == { "DISK_USAGE", "X", LongTypeName }
MessagePaths == { << >>, << PathAllowed >>, << PathDenied >>, << LongPathDenied >>,
                  << PathAllowed, LongPathDenied >> }
MessageTasks ==
    { [ id |-> 1, check_id |-> "c", check_type |-> t, site_id |-> "s", paths |-> p ] :
        t \in MessageTypes, p \in MessagePaths }
ExceptionTexts == { "check failure", LongExceptionText }

\* lines 236-279 and 282-288: the first TaskResult of a task, the line that hands
\* it to submit_result (279, or 300 inside _submit_error_result), whether that
\* happens inside the try block, and what was done to the check
FirstSubmission(task, out, text) ==
    IF FirstDenied(task) # 0
    THEN [ result |-> ErrorResult(task, PathDeniedMessage(task.paths[FirstDenied(task)])),
           line |-> 300, in_try |-> TRUE, outcome |-> NoOutcome,
           created |-> { }, executed |-> { } ]
    ELSE IF RegistryCreateIsNone(task.check_type)
    THEN [ result |-> ErrorResult(task, UnknownTypeMessage(task.check_type)),
           line |-> 300, in_try |-> TRUE, outcome |-> NoOutcome,
           created |-> { task.id }, executed |-> { } ]
    ELSE IF out.kind = "returns"
    THEN [ result |-> NormalResult(task, out),
           line |-> 279, in_try |-> TRUE, outcome |-> out,
           created |-> { task.id }, executed |-> { task.id } ]
    ELSE [ result |-> ErrorResult(task, ExceptionMessage(text)),
           line |-> 300, in_try |-> FALSE, outcome |-> out,
           created |-> { task.id },
           executed |-> IF out.kind = "init_raises" THEN { } ELSE { task.id } ]

\* whether the except clause of lines 282-288 submits a second result, after the
\* first submission had the outcome kind
SubmitsAgain(first, kind) ==
    /\ kind # "ok"
    /\ first.in_try
    /\ first.line = 300 => ~SubmitErrorCatches(kind)
    /\ ExecuteCatches(kind)

InitExecuteTask ==
    /\ pc = "execute_task"
    /\ running = TRUE
    /\ closed = FALSE
    /\ current_poll_interval = POLL_INTERVAL
    /\ current_backoff_index = 0
    /\ last_error_type = None
    /\ checks = ImportedChecks
    /\ since_heartbeat = 0
    /\ \E task \in MessageTasks : tasks = << task >>
    /\ idx = 1
    /\ pending = NoResult
    /\ in_try = FALSE
    /\ outcome = NoOutcome
    /\ submitted = << >>
    /\ created = { }
    /\ executed = { }
    /\ last_call = None
    /\ last_outcome = None
    /\ slept = 0
    /\ backoff_log = << >>
    /\ polls_5xx = 0
    /\ signalled_at = NotSignalled
    /\ registry_op = NoRegistryOp
    /\ registry_result = NoCheck
    /\ last_response = NoRequest
    /\ poll_body = << >>

\* one call of _execute_task(task), to its return or to the exception that leaves it
CallExecuteTask ==
    /\ pc = "execute_task"
    /\ \E out \in CheckOutcomes, text \in ExceptionTexts,
          o1 \in RequestOutcomes, o2 \in RequestOutcomes :
          LET task == tasks[idx]
              first == FirstSubmission(task, out, text)
              again == SubmitsAgain(first, o1.kind)
          IN  /\ outcome' = first.outcome
              /\ created' = first.created
              /\ executed' = first.executed
              /\ submitted' = IF again
                              THEN << first.result,
                                      ErrorResult(task, ApiExceptionMessage(o1.kind)) >>
                              ELSE << first.result >>
              /\ Returned("submit_result", IF again THEN o2.kind ELSE o1.kind)
    /\ pc' = "returned"
    /\ UNCHANGED << tasks, running, closed, current_poll_interval, checks, since_heartbeat, idx,
                    pending, in_try, slept, signalled_at, registry_op, registry_result,
                    last_response, poll_body >>

NextExecuteTask == CallExecuteTask

SpecExecuteTask == InitExecuteTask /\ [][NextExecuteTask]_vars

(***************************************************************************)
(* C22: every result submitted for a failed task carries a message of at   *)
(* most MessageBound characters, whatever the length of the denied path,   *)
(* of the unknown check type or of the text of the exception a check       *)
(* raised.                                                                 *)
(***************************************************************************)
IsFailureResult(result) == result.status = "ERROR" /\ result.message.text # "result.message"

C22_FailureMessageBounded ==
    \A i \in 1 .. Len(submitted) :
        IsFailureResult(submitted[i]) => MessageLen(submitted[i].message) <= MessageBound

(***************************************************************************)
(* ApiClient.get_tasks alone (api_client.py lines 266-289), called once on *)
(* a poll response whose entries carry the id and the config under either  *)
(* name, under both, or under none.                                        *)
(***************************************************************************)
LegacyIdOffset == 10    \* where both names are given, id holds another value than taskId

IdFields(i) ==
    { [ taskId |-> i, id |-> NoId ],
      [ taskId |-> NoId, id |-> i ],
      [ taskId |-> i, id |-> i + LegacyIdOffset ],
      [ taskId |-> EmptyId, id |-> i + LegacyIdOffset ],
      [ taskId |-> NoId, id |-> NoId ] }

\* ConfigOf(<< >>) stands for the empty dict, NoConfig for an absent key
ConfigFields ==
    { [ checkConfig |-> NoConfig, config |-> NoConfig ],
      [ checkConfig |-> ConfigOf(<< PathAllowed >>), config |-> NoConfig ],
      [ checkConfig |-> NoConfig, config |-> ConfigOf(<< PathAllowed >>) ],
      [ checkConfig |-> ConfigOf(<< >>), config |-> NoConfig ],
      [ checkConfig |-> NoConfig, config |-> ConfigOf(<< >>) ],
      [ checkConfig |-> ConfigOf(<< PathAllowed >>), config |-> ConfigOf(<< PathDenied >>) ],
      [ checkConfig |-> ConfigOf(<< >>), config |-> ConfigOf(<< PathDenied >>) ] }

\* the entry follows one convention (new names only, or old names only), or it
\* gives both fields under both names
NamesAgree(f, c) ==
    \/ f.id = NoId /\ ~c.config.present
    \/ f.taskId = NoId /\ ~c.checkConfig.present
    \/ f.taskId # NoId /\ f.id # NoId /\ c.checkConfig.present /\ c.config.present

GetTasksEntries(i) ==
    { [ WireTask(i, "DISK_USAGE", << >>, "taskId") EXCEPT
            !.taskId = fc[1].taskId, !.id = fc[1].id,
            !.checkConfig = fc[2].checkConfig, !.config = fc[2].config ] :
        fc \in { x \in IdFields(i) \X ConfigFields : NamesAgree(x[1], x[2]) } }
    \cup MalformedWireTasks(i)

RECURSIVE GetTasksBodiesOfLength(_)
GetTasksBodiesOfLength(n) ==
    IF n = 0 THEN { << >> }
    ELSE { Append(b, t) : b \in GetTasksBodiesOfLength(n - 1), t \in GetTasksEntries(n) }

GetTasksBodies == UNION { GetTasksBodiesOfLength(n) : n \in 0 .. MaxTasks }

InitGetTasks ==
    /\ pc = "get_tasks"
    /\ running = TRUE
    /\ closed = FALSE
    /\ current_poll_interval = POLL_INTERVAL
    /\ current_backoff_index = 0
    /\ last_error_type = None
    /\ checks = ImportedChecks
    /\ since_heartbeat = 0
    /\ tasks = << >>
    /\ idx = 1
    /\ pending = NoResult
    /\ in_try = FALSE
    /\ outcome = NoOutcome
    /\ submitted = << >>
    /\ created = { }
    /\ executed = { }
    /\ last_call = None
    /\ last_outcome = None
    /\ slept = 0
    /\ backoff_log = << >>
    /\ polls_5xx = 0
    /\ signalled_at = NotSignalled
    /\ registry_op = NoRegistryOp
    /\ registry_result = NoCheck
    /\ last_response = NoRequest
    /\ poll_body \in GetTasksBodies

\* one call of get_tasks(): pc is "returned" when it returns the list, "raised"
\* when an exception leaves it
CallGetTasks ==
    /\ pc = "get_tasks"
    /\ \E r \in Responses :
          /\ Returned("get_tasks", RequestOutcome(r).kind)
          /\ last_response' = [ made |-> TRUE, response |-> r, outcome |-> RequestOutcome(r) ]
          /\ IF RequestOutcome(r).kind = "ok" /\ ~BodyRaises(poll_body)
             THEN /\ tasks' = ParseBody(poll_body)
                  /\ pc' = "returned"
             ELSE /\ tasks' = tasks
                  /\ pc' = "raised"
    /\ UNCHANGED << running, closed, current_poll_interval, checks, since_heartbeat, idx,
                    pending, in_try, outcome, submitted, created, executed, slept,
                    signalled_at, registry_op, registry_result, poll_body >>

NextGetTasks == CallGetTasks

SpecGetTasks == InitGetTasks /\ [][NextGetTasks]_vars

(***************************************************************************)
(* C23: get_tasks accepts either naming convention.  The id of a task is   *)
(* taken from taskId when present and otherwise from id, its config from   *)
(* checkConfig when present and otherwise from config (the empty map when  *)
(* neither is given); a response in one convention and the same response   *)
(* in the other yield the same list of tasks, in the order of the          *)
(* response.                                                               *)
(***************************************************************************)
\* the entry with the two names of each field exchanged
OtherConvention(td) ==
    [ td EXCEPT !.taskId = td.id, !.id = td.taskId,
                !.checkConfig = td.config, !.config = td.checkConfig ]

\* the entry gives each field under one name at most
OneConvention(td) ==
    /\ td.taskId = NoId \/ td.id = NoId
    /\ ~td.checkConfig.present \/ ~td.config.present

\* the rule of the claim: presence of the key decides
IdWhenPresent(td) == IF td.taskId # NoId THEN td.taskId ELSE td.id
PathsWhenPresent(td) ==
    IF td.checkConfig.present THEN td.checkConfig.paths
    ELSE IF td.config.present THEN td.config.paths ELSE << >>

\* the amended rule: taskId and checkConfig decide when present and not empty
IdWhenNotEmpty(td) == IF td.taskId \notin { NoId, EmptyId } THEN td.taskId ELSE td.id
PathsWhenNotEmpty(td) ==
    IF td.checkConfig.present /\ td.checkConfig.paths # << >> THEN td.checkConfig.paths
    ELSE IF td.config.present THEN td.config.paths ELSE << >>

SameOrder == Len(tasks) = Len(poll_body)

EitherConventionSameList ==
    (\A i \in 1 .. Len(poll_body) : OneConvention(poll_body[i]))
       => tasks = [ i \in 1 .. Len(poll_body) |-> ParseTask(OtherConvention(poll_body[i])) ]

C24_ConnectionErrorStep ==
    (pc \in { "heartbeat", "poll" } /\ pc' # pc /\ last_outcome' = "ConnectionError")
       => /\ running' = running
          /\ current_backoff_index' = current_backoff_index
          /\ last_error_type' = last_error_type
          /\ current_poll_interval' = current_poll_interval
          /\ slept' = CONNECTION_RETRY_WAIT
          /\ pc' = "loop"

C24_ConnectionErrorFixedWait == [][C24_ConnectionErrorStep]_vars

(***************************************************************************)
(* C25: within one start(), once running has become false it never becomes *)
(* true again, and from then on no heartbeat, no get_tasks and no task     *)
(* dispatch is started.                                                    *)
(***************************************************************************)
\* running is false before start() sets it at line 134: pc is "start" there
NeverRunningAgain == (pc # "start" /\ ~running) => ~running'

C25_StoppedStep ==
    /\ NeverRunningAgain
    /\ (~running /\ pc \in { "loop", "heartbeat", "poll", "tasks" })
          => pc' \in { pc, "done", "sleep" }

C25_NothingStartsOnceStopped == [][C25_StoppedStep]_vars

\* C25, amended: once running has become false it never becomes true again, no
\* new iteration is started and the running test before each task lets no
\* further task through; the heartbeat and the get_tasks of the iteration in
\* progress are still called.
C25_IterationStep ==
    /\ NeverRunningAgain
    /\ (~running /\ pc = "loop") => pc' \in { pc, "done" }
    /\ (~running /\ pc = "tasks") => pc' \in { pc, "sleep" }
    /\ (~running /\ pc = "heartbeat") => pc' \in { pc, "poll", "loop" }
    /\ (~running /\ pc = "poll") => pc' \in { pc, "tasks", "loop" }

C25_NoNewIterationOnceStopped ==
    /\ [](pc = "done" => ~running)
    /\ [][C25_IterationStep]_vars

\* start() has returned after a signal that arrived before the poll of the last
\* iteration: that poll returned tasks, none of which was dispatched
C25_Witness ==
    /\ pc = "done"
    /\ ~running
    /\ last_call = "get_tasks"
    /\ last_outcome = "ok"
    /\ since_heartbeat = POLL_INTERVAL

(***************************************************************************)
(* C26: no request is issued on the session once stop() has closed it: in  *)
(* every interleaving of a signal with an iteration, no heartbeat, no      *)
(* get_tasks and no submit_result follows ApiClient.close(), the           *)
(* submission of the task in flight included.                              *)
(***************************************************************************)
\* the positions of start() whose next step issues a request
RequestPositions == { "heartbeat", "poll", "submit", "submit_error" }

C26_ClosedStep ==
    (closed /\ pc \in RequestPositions) => (pc' = pc /\ submitted' = submitted)

C26_NoRequestAfterClose == [][C26_ClosedStep]_vars

(***************************************************************************)
(* C27: in every state of the running loop current_poll_interval is the    *)
(* configured poll interval.  Whatever heartbeat, get_tasks and            *)
(* submit_result answer, 429 and 5xx included, the loop never calls        *)
(* get_backoff_interval and never sleeps a backoff value: every ApiError   *)
(* is caught before it reaches the clauses of the main loop.               *)
(***************************************************************************)
BackoffValues ==
    { RATE_LIMIT_BACKOFF[i] : i \in 1 .. Len(RATE_LIMIT_BACKOFF) }
    \cup { SERVER_ERROR_BACKOFF[i] : i \in 1 .. Len(SERVER_ERROR_BACKOFF) }

C27_IntervalNeverEscalates ==
    pc # "start" =>
       /\ current_poll_interval = POLL_INTERVAL
       /\ backoff_log = << >>
       /\ current_backoff_index = 0
       /\ last_error_type = None
       /\ slept \notin BackoffValues

\* a heartbeat has been answered 429 after two polls in a row were answered 5xx
C27_Witness ==
    /\ pc = "poll"
    /\ running
    /\ last_call = "heartbeat"
    /\ last_outcome = "RateLimitError"
    /\ polls_5xx >= 2
    /\ slept = POLL_INTERVAL

(***************************************************************************)
(* The agent loop under the assumption that every step of start() that is  *)
(* possible is eventually taken: checks, requests and sleeps terminate.    *)
(* Signals arrive at any time or never.                                    *)
(***************************************************************************)
ProgramStep ==
    \/ Start
    \/ LoopTop
    \/ SendHeartbeat
    \/ PollTasks
    \/ TaskLoop
    \/ ExecuteTask
    \/ SubmitResult
    \/ SubmitErrorResult
    \/ Sleep

SpecLive == Init /\ [][Next]_vars /\ WF_vars(ProgramStep)

(***************************************************************************)
(* C28: after a signal has set running to false, start() eventually        *)
(* returns, provided checks and API calls terminate.  The loop finishes    *)
(* the task in flight at most, skips the rest of the batch, sleeps once    *)
(* more at most and leaves the while loop without another iteration.       *)
(***************************************************************************)
Stopping == pc \notin { "start", "done" } /\ ~running

C28_StoppingStep ==
    Stopping =>
       /\ pc = "loop" => pc' \in { pc, "done" }
       /\ pc = "tasks" => pc' \in { pc, "sleep" }
       /\ pc = "sleep" => pc' \in { pc, "loop" }
       /\ pc \in InFlight => pc' \in InFlight \cup { "tasks", "loop" }
       /\ idx' \in { idx, idx + 1, 1 }

C28_StartReturnsAfterSignal ==
    /\ [][C28_StoppingStep]_vars
    /\ Stopping ~> (pc = "done")

\* start() has returned after a signal: the last request of the loop was the
\* submission of a task's result, and the loop slept the poll interval before
\* the while test ended it
C28_Witness ==
    /\ pc = "done"
    /\ ~running
    /\ closed
    /\ last_call = "submit_result"
    /\ slept = POLL_INTERVAL

(***************************************************************************)
(* C29: a 2xx poll response with a malformed entry (no checkId, checkType  *)
(* or siteId) makes get_tasks raise an exception that is not an ApiError   *)
(* and that _poll_tasks lets through.  No task of the response is          *)
(* dispatched and no result is submitted, the well-formed entries          *)
(* included; the last clause of the main loop waits 60 seconds and the     *)
(* loop goes on with running unchanged.                                    *)
(***************************************************************************)
\* the poll request was answered 2xx and get_tasks raised on the body
MalformedPollStep == pc = "poll" /\ pc' = "loop" /\ last_outcome' = "ok"

C29_MalformedStep ==
    MalformedPollStep =>
       /\ tasks' = << >>
       /\ submitted' = << >>
       /\ created' = { } /\ executed' = { }
       /\ slept' = UNEXPECTED_ERROR_WAIT
       /\ running' = running
       /\ current_poll_interval' = current_poll_interval

MalformedPollHandled ==
    pc = "loop" /\ last_call = "get_tasks" /\ last_outcome = "ok"
    /\ slept = UNEXPECTED_ERROR_WAIT

C29_MalformedPollDropsBatch ==
    /\ [][C29_MalformedStep]_vars
    /\ [][(MalformedPollHandled /\ running) => pc' \in { pc, "heartbeat", "poll" }]_vars

\* the loop has waited 60 seconds after a malformed poll response and runs on
C29_Witness == MalformedPollHandled /\ running /\ ~closed

(***************************************************************************)
(* AgentConfig.is_path_allowed alone (config/loader.py lines 106-120),     *)
(* called once on the path of a task, as _execute_task does at agent.py    *)
(* lines 237-238: any path of up to MaxPathLen characters.                 *)
(***************************************************************************)
PathAlphabet == { "/", "a", "d", "2", "." }
PathInputs == UNION { [ 1 .. n -> PathAlphabet ] : n \in 0 .. MaxPathLen }

InitIsPathAllowed ==
    /\ pc = "is_path_allowed"
    /\ running = TRUE
    /\ closed = FALSE
    /\ current_poll_interval = POLL_INTERVAL
    /\ current_backoff_index = 0
    /\ last_error_type = None
    /\ checks = ImportedChecks
    /\ since_heartbeat = 0
    /\ \E p \in PathInputs :
          tasks = << [ id |-> 1, check_id |-> "c", check_type |-> "DISK_USAGE",
                       site_id |-> "s", paths |-> << p >> ] >>
    /\ idx = 1
    /\ pending = NoResult
    /\ in_try = FALSE
    /\ outcome = NoOutcome
    /\ submitted = << >>
    /\ created = { }
    /\ executed = { }
    /\ last_call = None
    /\ last_outcome = None
    /\ slept = 0
    /\ backoff_log = << >>
    /\ polls_5xx = 0
    /\ signalled_at = NotSignalled
    /\ registry_op = NoRegistryOp
    /\ registry_result = NoCheck
    /\ last_response = NoRequest
    /\ poll_body = << >>

\* the call: pc tells what it returned
CallIsPathAllowed ==
    /\ pc = "is_path_allowed"
    /\ pc' = IF is_path_allowed(tasks[idx].paths[1]) THEN "returned_true" ELSE "returned_false"
    /\ UNCHANGED << running, closed, current_poll_interval, current_backoff_index,
                    last_error_type, checks, since_heartbeat, tasks, idx, pending, in_try,
                    outcome, submitted, created, executed, last_call, last_outcome, slept,
                    backoff_log, polls_5xx, signalled_at, registry_op, registry_result,
                    last_response, poll_body >>

NextIsPathAllowed == CallIsPathAllowed

SpecIsPathAllowed == InitIsPathAllowed /\ [][NextIsPathAllowed]_vars

(***************************************************************************)
(* C30: is_path_allowed(p) returns true only if p is an allowed directory  *)
(* or lies inside one, and is no denied directory and lies inside none:    *)
(* denied wins over allowed, a path matching neither list is denied, and a *)
(* sibling that only shares a prefix of characters with an allowed         *)
(* directory (/var/www2 beside /var/www) is not allowed.                   *)
(***************************************************************************)
\* path is the directory dir or lies below it (both absolute and normalised)
EqualOrInside(path, dir) ==
    \/ path = dir
    \/ dir = << "/" >>
    \/ StartsWith(path, dir \o << "/" >>)

InsideAllowed(path) ==
    \E i \in 1 .. Len(allowed_paths) : EqualOrInside(abspath(path), abspath(allowed_paths[i]))
InsideDenied(path) ==
    \E i \in 1 .. Len(denied_paths) : EqualOrInside(abspath(path), abspath(denied_paths[i]))

C30_AllowedOnlyInsideAllowed ==
    pc = "returned_true" =>
       /\ InsideAllowed(tasks[idx].paths[1])
       /\ ~InsideDenied(tasks[idx].paths[1])

====
